---------------------------- MODULE Spec2Model ----------------------------
(***************************************************************************)
(* A model of the Leveler simulation of src/redistribution.go: the program *)
(* main, its three turn schedulers Unifact, Randmact and Poisact, the      *)
(* pairwise leveling Proc and the rate normalisation Normalize.            *)
(*                                                                         *)
(* Representation.                                                         *)
(*  - An agent is its index in Pop (the code passes &Pop[i]).              *)
(*  - wealth is a float64 that only ever holds integers (Populate stores   *)
(*    i+1, Proc stores a math.Floor): it is an Int here, and               *)
(*    math.Floor((x+y)/2) is (x+y) \div 2, which rounds towards minus      *)
(*    infinity as math.Floor does.                                         *)
(*  - lam and the other rate arithmetic are float64 values. They are exact *)
(*    rationals here, with NaN and the two infinities as IEEE 754 produces *)
(*    them from 0/0 and x/0. Rounding is not modelled; the comparisons the *)
(*    code makes on these values (denom == 0, lam == 0) come out the same  *)
(*    for the small integral wealths of the model.                         *)
(*  - Time inside a turn is counted in ticks; TimeOne ticks are the clock  *)
(*    value 1.0 of the code. A draw of -ln(U)/lam is a choice of a gap;    *)
(*    the one rounding kept is that of nextT += gap, which leaves the      *)
(*    clock where it was when the gap is under half its rounding step.     *)
(*  - A standard deviation is kept only as "num" (a number) or "nan"; a    *)
(*    cell of a results matrix is one of these or "zero", the 0.0 with     *)
(*    which NewDense fills it.                                             *)
(*  - pre and calls are history variables: the wealths at the start of the *)
(*    turn under way and the Proc calls made in it so far (their agents    *)
(*    and, in Poisact, the events they came from). An event carries its    *)
(*    position of insertion into aTimes as id.                             *)
(***************************************************************************)
EXTENDS Integers, Sequences, FiniteSets, TLC

\* ------------------------------------------------------------------ bounds
\* The largest population size, turn count and run count explored.
MaxAgents == 4
MaxTurns == 2
MaxRuns == 2
\* The most activation events one Poisson turn may emit in the model.
MaxEvents == 4
\* The clock value 1.0, in ticks.
TimeOne == 3

\* --------------------------------------------------------- float64 values
RECURSIVE GCD(_, _)
GCD(a, b) == IF b = 0 THEN a ELSE GCD(b, a % b)

IAbs(x) == IF x < 0 THEN -x ELSE x

\* The rational n/d in lowest terms with a positive denominator (d # 0).
Rat(n, d) ==
    LET g == GCD(IAbs(n), IAbs(d))
        s == IF d < 0 THEN -1 ELSE 1
    IN  [k |-> "num", n |-> (s * n) \div g, d |-> (s * d) \div g]

NaN == [k |-> "nan", n |-> 0, d |-> 1]
\* Plus or minus infinity: s is 1 or -1.
Inf(s) == [k |-> "inf", n |-> s, d |-> 1]

F(i) == Rat(i, 1)

IsNaN(x) == x.k = "nan"
IsNum(x) == x.k = "num"
FSign(x) == IF x.n > 0 THEN 1 ELSE IF x.n < 0 THEN -1 ELSE 0

\* x + y
FAdd(x, y) ==
    IF IsNaN(x) \/ IsNaN(y) THEN NaN
    ELSE IF x.k = "inf" /\ y.k = "inf" THEN (IF x.n = y.n THEN x ELSE NaN)
    ELSE IF x.k = "inf" THEN x
    ELSE IF y.k = "inf" THEN y
    ELSE Rat(x.n * y.d + y.n * x.d, x.d * y.d)

\* x - y
FSub(x, y) == FAdd(x, [y EXCEPT !.n = -y.n])

\* x * y
FMul(x, y) ==
    IF IsNaN(x) \/ IsNaN(y) THEN NaN
    ELSE IF x.k = "inf" \/ y.k = "inf"
         THEN (IF FSign(x) * FSign(y) = 0 THEN NaN ELSE Inf(FSign(x) * FSign(y)))
    ELSE Rat(x.n * y.n, x.d * y.d)

\* x / y: 0/0 and inf/inf are NaN, a non-zero x over 0 is an infinity.
FDiv(x, y) ==
    IF IsNaN(x) \/ IsNaN(y) THEN NaN
    ELSE IF x.k = "inf" THEN (IF y.k = "inf" THEN NaN
                              ELSE Inf(x.n * (IF FSign(y) < 0 THEN -1 ELSE 1)))
    ELSE IF y.k = "inf" THEN F(0)
    ELSE IF y.n = 0 THEN (IF x.n = 0 THEN NaN ELSE Inf(FSign(x)))
    ELSE Rat(x.n * y.d, x.d * y.n)

\* math.Abs
FAbs(x) == IF IsNaN(x) THEN NaN ELSE [x EXCEPT !.n = IAbs(x.n)]

\* x == 0 as Go evaluates it: false for NaN and for the infinities.
FIsZero(x) == IsNum(x) /\ x.n = 0

\* A strictly positive finite number.
FIsPositiveFinite(x) == IsNum(x) /\ x.n > 0

RECURSIVE FSum(_)
FSum(s) == IF s = <<>> THEN F(0) ELSE FAdd(FSum(SubSeq(s, 1, Len(s) - 1)), s[Len(s)])

RECURSIVE ISum(_)
ISum(s) == IF s = <<>> THEN 0 ELSE ISum(SubSeq(s, 1, Len(s) - 1)) + s[Len(s)]

\* The literals 0.0001 and 1.1 of the code.
Epsilon == Rat(1, 10000)
TargetMultiplier == Rat(11, 10)

\* ---------------------------------------------------------------- program
VARIABLES
    NumOfAgents, NumTurns, NumRuns,  \* the run configuration (package variables)
    activationType,                  \* package variable activationType
    Pop,                             \* package variable Pop
    pc,                              \* where main (or the scheduler it called) is
    ai, ri, ti,                      \* main: loop indices over policies, runs, turns
    sds, actResults, totalResults,   \* main: trajectory, per-policy matrix, all
    gi, gj, runArray,                \* main: gradient analysis loops and row buffer
    li,                              \* the running scheduler's loop index
    perm, turnList, wg, gor,         \* Unifact: permutation, queue, WaitGroup counter, goroutines
    aTimes, nextT, arr0,             \* Poisact: events, arrival clock, deque
    pre, calls                       \* history of the turn under way: the wealths at
                                     \* its start and the Proc calls made so far

vars == <<NumOfAgents, NumTurns, NumRuns, activationType, Pop, pc, ai, ri, ti,
          sds, actResults, totalResults, gi, gj, runArray, li, perm, turnList, wg, gor,
          aTimes, nextT, arr0, pre, calls>>

cfgVars == <<NumOfAgents, NumTurns, NumRuns>>
uniVars == <<perm, turnList, wg, gor>>
poisVars == <<aTimes, nextT, arr0>>
gradVars == <<gi, gj, runArray>>

activationTypes == <<"uniform", "random", "poisson", "inversePoisson", "naturalPoisson">>

Wealths(P) == [i \in 1..Len(P) |-> P[i].wealth]
Lams(P) == [i \in 1..Len(P) |-> P[i].lam]

\* Mutant of Populate: a population that exists is kept as it is.
PopulateKeep(n) ==
    IF Pop = <<>> THEN [i \in 1..n |-> [wealth |-> i, lam |-> F(0)]] ELSE Pop

\* Mutant of Populate: agent i (from 0) gets wealth i.
PopulateFromZero(n) == [i \in 1..n |-> [wealth |-> i - 1, lam |-> F(0)]]

\* Populate: agent i (from 0) gets wealth i+1; lam is the zero value.
Populate(n) == [i \in 1..n |-> [wealth |-> i, lam |-> F(0)]]

\* stats.StatsMean of the wealths: the sum over the count (0/0 when empty).
Mean(P) == FDiv(F(ISum(Wealths(P))), F(Len(P)))

\* Asdw's second result, the sample standard deviation (n-1 denominator): a
\* number for two or more agents, not a number below that.
Asdw(P) == IF Len(P) < 2 THEN "nan" ELSE "num"

\* Mutant of Averg: the mean rounded up.
AvergCeil(wa, wb) == (wa + wb + 1) \div 2

\* Mutant of Averg: the difference halved, not the sum.
AvergDiff(wa, wb) == (wa - wb) \div 2

\* Mutant of Averg: the sum, not halved.
AvergSum(wa, wb) == wa + wb

\* Proc line 121: math.Floor((a.wealth + b.wealth) / 2).
Averg(wa, wb) == (wa + wb) \div 2

\* Mutant of Proc: b is written, a is not.
ProcOnlyB(P, a, b) ==
    [P EXCEPT ![b].wealth = (P[a].wealth + P[b].wealth) \div 2]

\* Proc(&Pop[a], &Pop[b]) run to completion: b is written, then a.
Proc(P, a, b) ==
    LET averg == Averg(P[a].wealth, P[b].wealth)
        Pb == [P EXCEPT ![b].wealth = averg]
    IN  [Pb EXCEPT ![a].wealth = averg]


\* mat64.NewDense(r, c, nil): r rows of c cells, each 0.0.
NewDense(r, c) == [i \in 1..r |-> [j \in 1..c |-> "zero"]]

\* Dense.SetRow(r, src) of the copying library version: copy(row, src), which
\* copies min(len(row), len(src)) cells and leaves the rest of the row.
SetRow(M, r, src) ==
    [M EXCEPT ![r + 1] = [c \in 1..Len(M[r + 1]) |->
                             IF c <= Len(src) THEN src[c] ELSE M[r + 1][c]]]

\* Whether the library version that checks the length refuses src for a row of M.
SetRowPanics(M, r, src) == Len(src) # Len(M[r + 1])

\* Dense.Row into a buffer as wide as the matrix (Caps): the stored row r.
Row(M, r) == M[r + 1]

\* The cell after `if x == 0 { x = 1e-11 }; x = math.Log(x)`.
LogCell(v) == IF v = "nan" THEN "nan" ELSE "num"

Init ==
    /\ NumOfAgents \in 0..MaxAgents
    /\ NumTurns \in 1..MaxTurns
    /\ NumRuns \in 1..MaxRuns
    /\ activationType = "inversePoisson"
    /\ Pop = <<>>
    /\ pc = "main_policy"
    /\ ai = 0 /\ ri = 0 /\ ti = 0
    /\ sds = <<>> /\ actResults = <<>> /\ totalResults = <<>>
    /\ gi = 0 /\ gj = 0 /\ runArray = <<>>
    /\ li = 0
    /\ perm = <<>> /\ turnList = <<>> /\ wg = 0 /\ gor = <<>>
    /\ aTimes = <<>> /\ nextT = 0 /\ arr0 = <<>>
    /\ pre = <<>> /\ calls = <<>>

\* main, lines 297-299 and 330: the head of the loop over activationTypes.
MainPolicy ==
    /\ pc = "main_policy"
    /\ IF ai < Len(activationTypes)
       THEN /\ actResults' = NewDense(NumRuns, NumTurns)
            /\ activationType' = activationTypes[ai + 1]
            /\ ri' = 0
            /\ pc' = "main_run"
            /\ UNCHANGED <<gi, gj>>
       ELSE /\ pc' = "grad"
            /\ gi' = 0 /\ gj' = 0
            /\ UNCHANGED <<actResults, activationType, ri>>
    /\ UNCHANGED <<cfgVars, Pop, ai, ti, sds, totalResults, runArray, li,
                   uniVars, poisVars, pre, calls>>

\* main, lines 301-312: the head of the loop over runs; a run starts with a
\* fresh population and its first measurement.
MainRun ==
    /\ pc = "main_run"
    /\ IF ri < NumRuns
       THEN /\ Pop' = Populate(NumOfAgents)
            /\ sds' = <<Asdw(Pop')>>
            /\ ti' = 0
            /\ pc' = "main_turn"
            /\ UNCHANGED <<ai, totalResults>>
       ELSE /\ totalResults' = Append(totalResults, actResults)
            /\ ai' = ai + 1
            /\ pc' = "main_policy"
            /\ UNCHANGED <<Pop, sds, ti>>
    /\ UNCHANGED <<cfgVars, activationType, ri, actResults, gradVars, li,
                   uniVars, poisVars, pre, calls>>

\* main, lines 313-321: the head of the loop over turns, which calls the
\* scheduler of the policy.
MainTurn ==
    /\ pc = "main_turn"
    /\ ti < NumTurns
    /\ pc' = IF activationType = "uniform" THEN "uni_fill"
             ELSE IF activationType = "random" THEN "rand_loop"
             ELSE "pois_rates"
    /\ li' = 0
    /\ pre' = Wealths(Pop)
    /\ calls' = <<>>
    /\ UNCHANGED <<cfgVars, activationType, Pop, ai, ri, ti, sds, actResults,
                   totalResults, gradVars, uniVars, poisVars>>

\* main, lines 322-323: the measurement after the scheduler has returned.
MainMeasure ==
    /\ pc = "main_measure"
    /\ sds' = Append(sds, Asdw(Pop))
    /\ ti' = ti + 1
    /\ pc' = "main_turn"
    /\ pre' = <<>>
    /\ calls' = <<>>
    /\ UNCHANGED <<cfgVars, activationType, Pop, ai, ri, actResults,
                   totalResults, gradVars, li, uniVars, poisVars>>

\* main, lines 325-327: after the last turn the trajectory goes into row ri of
\* the policy's matrix. The library is not pinned: the version whose SetRow
\* copies stores what fits, the version whose SetRow checks the length panics.
MainStore ==
    /\ pc = "main_turn"
    /\ ti >= NumTurns
    /\ \/ /\ actResults' = SetRow(actResults, ri, sds)
          /\ ri' = ri + 1
          /\ pc' = "main_run"
       \/ /\ SetRowPanics(actResults, ri, sds)
          /\ pc' = "panic"
          /\ UNCHANGED <<actResults, ri>>
    /\ UNCHANGED <<cfgVars, activationType, Pop, ai, ti, sds, totalResults,
                   gradVars, li, uniVars, poisVars, pre, calls>>

\* main, lines 335-359: the gradient analysis reads every stored row back.
MainGradient ==
    /\ pc = "grad"
    /\ IF gi >= Len(totalResults)
       THEN /\ pc' = "done"
            /\ UNCHANGED gradVars
       ELSE IF gj < NumRuns
       THEN /\ runArray' = [k \in 1..Len(Row(totalResults[gi + 1], gj)) |->
                               LogCell(Row(totalResults[gi + 1], gj)[k])]
            /\ gj' = gj + 1
            /\ UNCHANGED <<pc, gi>>
       ELSE /\ gi' = gi + 1
            /\ gj' = 0
            /\ UNCHANGED <<pc, runArray>>
    /\ UNCHANGED <<cfgVars, activationType, Pop, ai, ri, ti, sds, actResults,
                   totalResults, li, uniVars, poisVars, pre, calls>>

\* ---------------------------------------------------------------- Randmact
\* rand.Intn(n): any index of the population.
Intn(n) == 1..n

\* Randmact, lines 128-130: one iteration levels a pair drawn with replacement;
\* after NumOfAgents/2 iterations the scheduler returns.
Randmact ==
    /\ pc = "rand_loop"
    /\ IF li < NumOfAgents \div 2
       THEN \E a \in Intn(NumOfAgents), b \in Intn(NumOfAgents) :
               /\ Pop' = Proc(Pop, a, b)
               /\ calls' = Append(calls, [a |-> a, b |-> b, ea |-> 0, eb |-> 0])
               /\ li' = li + 1
               /\ UNCHANGED pc
       ELSE /\ pc' = "main_measure"
            /\ li' = 0
            /\ UNCHANGED <<Pop, calls>>
    /\ UNCHANGED <<cfgVars, activationType, ai, ri, ti, sds, actResults,
                   totalResults, gradVars, uniVars, poisVars, pre>>

\* ----------------------------------------------------------------- Unifact
\* Mutant of Perm: indices drawn with replacement.
PermWithRepeats(n) == [1..n -> 1..n]

\* rand.Perm(n): the permutations of the n agent indices.
Perm(n) == {p \in [1..n -> 1..n] : \A i, j \in 1..n : p[i] = p[j] => i = j}

\* queue.Get(k) on a queue that holds items: up to k items from the front.
QueueGet(q, k) == SubSeq(q, 1, IF Len(q) < k THEN Len(q) ELSE k)
\* Mutant of QueueRest: Get takes only one item off the queue.
QueueRestOne(q, k) == Tail(q)

\* The queue after Get(k).
QueueRest(q, k) == SubSeq(q, (IF Len(q) < k THEN Len(q) ELSE k) + 1, Len(q))

\* wg.Add(1), line 154.
WgAdd(counter) == counter + 1

\* Mutant of WgDone: the counter is left as it is.
WgDoneNone(counter) == counter

\* wg.Done(), line 156.
WgDone(counter) == counter - 1

\* Mutant of WaitReady: Wait returns at once.
WaitReadyAtOnce(counter) == TRUE

\* wg.Wait returns once the counter is zero.
WaitReady(counter) == counter = 0

\* The i-th element of s removed.
Remove(s, i) == SubSeq(s, 1, i - 1) \o SubSeq(s, i + 1, Len(s))

\* Unifact, lines 135-145: a fresh queue and WaitGroup; the permutation is put
\* on the queue (size, line 145, is then len(Pop)/2).
UniFill ==
    /\ pc = "uni_fill"
    /\ \E p \in Perm(Len(Pop)) :
          /\ perm' = p
          /\ turnList' = p
    /\ wg' = 0
    /\ li' = 0
    /\ pc' = "uni_spawn"
    /\ UNCHANGED <<cfgVars, activationType, Pop, ai, ri, ti, sds, actResults,
                   totalResults, gradVars, gor, poisVars, pre, calls>>

\* Unifact, lines 146-159: one iteration takes two indices off the queue, adds
\* one to the WaitGroup and starts the goroutine that levels the pair. Get
\* blocks on an empty queue; bag[1] needs two items.
UniSpawn ==
    /\ pc = "uni_spawn"
    /\ IF li < Len(perm) \div 2
       THEN /\ Len(turnList) >= 1
            /\ LET bag == QueueGet(turnList, 2) IN
                  /\ Len(bag) = 2
                  /\ gor' = Append(gor, [a |-> bag[1], b |-> bag[2], averg |-> 0, st |-> "read"])
                  /\ calls' = Append(calls, [a |-> bag[1], b |-> bag[2], ea |-> 0, eb |-> 0])
            /\ turnList' = QueueRest(turnList, 2)
            /\ wg' = WgAdd(wg)
            /\ li' = li + 1
            /\ UNCHANGED pc
       ELSE /\ pc' = "uni_wait"
            /\ UNCHANGED <<turnList, wg, gor, calls, li>>
    /\ UNCHANGED <<cfgVars, activationType, Pop, ai, ri, ti, sds, actResults,
                   totalResults, gradVars, perm, poisVars, pre>>

\* Unifact, line 160: wg.Wait, then the return to main.
UniWait ==
    /\ pc = "uni_wait"
    /\ WaitReady(wg)
    /\ pc' = "main_measure"
    /\ perm' = <<>>
    /\ turnList' = <<>>
    /\ li' = 0
    /\ UNCHANGED <<cfgVars, activationType, Pop, ai, ri, ti, sds, actResults,
                   totalResults, gradVars, wg, gor, poisVars, pre, calls>>

\* The goroutine of lines 155-158, Proc line 121: both wealths are read and
\* the floor of their mean kept in averg.
GoRead(g) ==
    /\ gor[g].st = "read"
    /\ gor' = [gor EXCEPT ![g].averg = Averg(Pop[gor[g].a].wealth, Pop[gor[g].b].wealth),
                          ![g].st = "write_b"]
    /\ UNCHANGED <<cfgVars, activationType, Pop, pc, ai, ri, ti, sds, actResults,
                   totalResults, gradVars, li, perm, turnList, wg, poisVars, pre, calls>>

\* Proc line 122: b.wealth = averg.
GoWriteB(g) ==
    /\ gor[g].st = "write_b"
    /\ Pop' = [Pop EXCEPT ![gor[g].b].wealth = gor[g].averg]
    /\ gor' = [gor EXCEPT ![g].st = "write_a"]
    /\ UNCHANGED <<cfgVars, activationType, pc, ai, ri, ti, sds, actResults,
                   totalResults, gradVars, li, perm, turnList, wg, poisVars, pre, calls>>

\* Proc line 123: a.wealth = averg.
GoWriteA(g) ==
    /\ gor[g].st = "write_a"
    /\ Pop' = [Pop EXCEPT ![gor[g].a].wealth = gor[g].averg]
    /\ gor' = [gor EXCEPT ![g].st = "done"]
    /\ UNCHANGED <<cfgVars, activationType, pc, ai, ri, ti, sds, actResults,
                   totalResults, gradVars, li, perm, turnList, wg, poisVars, pre, calls>>

\* Line 156: the deferred wg.Done, with which the goroutine ends.
GoDone(g) ==
    /\ gor[g].st = "done"
    /\ wg' = WgDone(wg)
    /\ gor' = Remove(gor, g)
    /\ UNCHANGED <<cfgVars, activationType, Pop, pc, ai, ri, ti, sds, actResults,
                   totalResults, gradVars, li, perm, turnList, poisVars, pre, calls>>


\* ----------------------------------------------------------------- Poisact
\* |Pop[i].wealth - mnw|
Dist(P, i) == FAbs(FSub(F(P[i].wealth), Mean(P)))

\* totd, lines 201-208: the total distance from the mean.
Totd(P) == FSum([i \in 1..Len(P) |-> Dist(P, i)])

\* Lines 212-229: the rate of agent i before normalisation, by policy.
RawLam(P, i, act) ==
    IF act = "inversePoisson"
    THEN LET denom == Dist(P, i)
         IN  FDiv(Totd(P), IF FIsZero(denom) THEN Epsilon ELSE denom)
    ELSE IF act = "naturalPoisson"
    THEN LET denom == F(P[i].wealth)
         IN  FDiv(F(1), IF FIsZero(denom) THEN Epsilon ELSE denom)
    ELSE FDiv(Dist(P, i), Totd(P))

\* Mutant of AssignRates: the rates are left as the turn before left them.
AssignRatesKeep(P, act) == P

\* Lines 211-230: every agent's lam set from the wealths.
AssignRates(P, act) == [i \in 1..Len(P) |-> [P[i] EXCEPT !.lam = RawLam(P, i, act)]]

\* Normalize, line 284-288: one agent's rate scaled, and a zero replaced.
Scaled(lam, n, totlam) ==
    LET x == FDiv(FMul(FMul(lam, F(n)), TargetMultiplier), totlam)
    IN  IF FIsZero(x) THEN FDiv(F(1), F(n)) ELSE x

\* Normalize, lines 277-290, with NumOfAgents = n.
Normalize(P, n) ==
    LET totlam == FSum(Lams(P))
    IN  [i \in 1..Len(P) |-> [P[i] EXCEPT !.lam = Scaled(P[i].lam, n, totlam)]]

\* The clock value NaN (NaN < 1.0 is false).
TimeNaN == TimeOne + 1

\* Mutant of BelowOne: a clock value of exactly 1.0 passes.
BelowOneOrAt(t) == t <= TimeOne

\* nextT < 1.0
BelowOne(t) == t < TimeOne

\* -1 * math.Log(rand.Float64()) / lam, in ticks: a positive finite rate gives
\* a positive gap (TimeOne stands for every gap of 1.0 or more, +Inf included),
\* a zero rate +Inf, an infinite rate 0, NaN gives NaN.
Gap(lam) ==
    IF IsNaN(lam) THEN {TimeNaN}
    ELSE IF lam.k = "inf" THEN {0}
    ELSE IF FIsPositiveFinite(lam) THEN 1..TimeOne
    ELSE {TimeOne}

\* nextT += gap in float64 can leave nextT as it was: rand.Float64 returns
\* values up to 1 - 2^-53, whose gap is 2^-53 / lam, and a clock value of 0.5
\* or more has a rounding step of 2^-53, so for lam > 2 that gap is under half
\* a step and the sum rounds back to nextT. (0 + gap is exact.)
Absorbs(t, lam) == t >= 1 /\ BelowOne(t) /\ IsNum(lam) /\ lam.n > 2 * lam.d

\* The amounts by which one draw may move the clock t of an agent of rate lam.
GapAt(t, lam) == Gap(lam) \cup (IF Absorbs(t, lam) THEN {0} ELSE {})

\* nextT + gap; every clock value of 1.0 or more is kept as TimeOne.
Advance(t, g) ==
    IF t = TimeNaN \/ g = TimeNaN THEN TimeNaN
    ELSE IF t + g >= TimeOne THEN TimeOne ELSE t + g

\* The arrangements sort.Sort may leave: the events in non-decreasing time,
\* events of equal time in any order (sort.Sort is not stable).
Sorted(evs) ==
    LET n == Len(evs)
    IN  {[i \in 1..n |-> evs[p[i]]] : p \in
            {q \in [1..n -> 1..n] :
                /\ \A i, j \in 1..n : q[i] = q[j] => i = j
                /\ \A i \in 1..(n - 1) : evs[q[i]].time <= evs[q[i + 1]].time}}

\* Mutant of EvenCut: an odd list is left odd.
EvenCutNone(evs) == evs

\* Lines 251-253: an odd list loses its last event.
EvenCut(evs) == IF Len(evs) % 2 > 0 THEN SubSeq(evs, 1, Len(evs) - 1) ELSE evs

\* Mutant of Truncate: the list is never cut.
TruncateNone(evs, n) == evs

\* Lines 254-257: a list longer than the population is cut to its size.
Truncate(evs, n) == IF Len(evs) > n THEN SubSeq(evs, 1, n) ELSE evs

\* Mutant of Shift: the front item is read and left on the deque.
ShiftPeek(q) == [item |-> Head(q), rest |-> q]

\* Deque.Shift: the front item, and the deque without it.
Shift(q) == [item |-> Head(q), rest |-> Tail(q)]

\* Poisact, lines 200-230: the rates are assigned from the wealths.
PoisRates ==
    /\ pc = "pois_rates"
    /\ Pop' = AssignRates(Pop, activationType)
    /\ pc' = "pois_norm"
    /\ UNCHANGED <<cfgVars, activationType, ai, ri, ti, sds, actResults,
                   totalResults, gradVars, li, uniVars, poisVars, pre, calls>>

\* Poisact, lines 233-238: Normalize, then the empty event list.
PoisNormalize ==
    /\ pc = "pois_norm"
    /\ Pop' = Normalize(Pop, NumOfAgents)
    /\ aTimes' = <<>>
    /\ li' = 0
    /\ pc' = "pois_first"
    /\ UNCHANGED <<cfgVars, activationType, ai, ri, ti, sds, actResults,
                   totalResults, gradVars, uniVars, nextT, arr0, pre, calls>>

\* The draws explored: one that puts the clock below 1.0 leads to one more
\* event, and is left out once MaxEvents events are on the list.
Allowed(t, n) == BelowOne(t) => n < MaxEvents

\* Poisact, lines 240-242 and 248-250: the loop over agents draws the agent's
\* first arrival time; after the last agent the events are sorted.
PoisFirst ==
    /\ pc = "pois_first"
    /\ IF li < Len(Pop)
       THEN /\ \E g \in GapAt(0, Pop[li + 1].lam) :
                  /\ Allowed(Advance(0, g), Len(aTimes))
                  /\ nextT' = Advance(0, g)
            /\ pc' = "pois_arrive"
            /\ UNCHANGED <<aTimes, li>>
       ELSE /\ \E s \in Sorted(aTimes) : aTimes' = s
            /\ pc' = "pois_cut"
            /\ li' = 0
            /\ UNCHANGED nextT
    /\ UNCHANGED <<cfgVars, activationType, Pop, ai, ri, ti, sds, actResults,
                   totalResults, gradVars, uniVars, arr0, pre, calls>>

\* Poisact, lines 243-247: an arrival before 1.0 is put on the list and the
\* next one drawn; the first arrival at or after 1.0 ends the agent's events.
PoisArrive ==
    /\ pc = "pois_arrive"
    /\ IF BelowOne(nextT)
       THEN /\ aTimes' = Append(aTimes, [time |-> nextT, agent |-> li + 1,
                                         id |-> Len(aTimes) + 1])
            /\ \E g \in GapAt(nextT, Pop[li + 1].lam) :
                  /\ Allowed(Advance(nextT, g), Len(aTimes'))
                  /\ nextT' = Advance(nextT, g)
            /\ UNCHANGED <<pc, li>>
       ELSE /\ li' = li + 1
            /\ pc' = "pois_first"
            /\ UNCHANGED <<aTimes, nextT>>
    /\ UNCHANGED <<cfgVars, activationType, Pop, ai, ri, ti, sds, actResults,
                   totalResults, gradVars, uniVars, arr0, pre, calls>>

\* Poisact, lines 251-264: the list is made even and cut to the population
\* size, and the deque filled from it.
PoisCut ==
    /\ pc = "pois_cut"
    /\ aTimes' = Truncate(EvenCut(aTimes), Len(Pop))
    /\ arr0' = aTimes'
    /\ li' = 0
    /\ pc' = "pois_pair"
    /\ UNCHANGED <<cfgVars, activationType, Pop, ai, ri, ti, sds, actResults,
                   totalResults, gradVars, uniVars, nextT, pre, calls>>

\* Poisact, lines 265-273: one iteration shifts two events off the deque and
\* levels their agents; after half = len(aTimes)/2 iterations, or with fewer
\* than two events left, Poisact returns.
PoisPair ==
    /\ pc = "pois_pair"
    /\ IF li < Len(aTimes) \div 2 /\ ~(Len(arr0) < 2)
       THEN LET first == Shift(arr0)
                second == Shift(first.rest)
                alpha == first.item
                beta == second.item
            IN  /\ arr0' = second.rest
                /\ Pop' = Proc(Pop, alpha.agent, beta.agent)
                /\ calls' = Append(calls, [a |-> alpha.agent, b |-> beta.agent,
                                           ea |-> alpha.id, eb |-> beta.id])
                /\ li' = li + 1
                /\ UNCHANGED <<pc, aTimes, nextT>>
       ELSE /\ pc' = "main_measure"
            /\ aTimes' = <<>>
            /\ arr0' = <<>>
            /\ nextT' = 0
            /\ li' = 0
            /\ UNCHANGED <<Pop, calls>>
    /\ UNCHANGED <<cfgVars, activationType, ai, ri, ti, sds, actResults,
                   totalResults, gradVars, uniVars, pre>>

\* ------------------------------------------------------------ specification
Next ==
    \/ MainPolicy
    \/ MainRun
    \/ MainTurn
    \/ MainMeasure
    \/ MainStore
    \/ MainGradient
    \/ Randmact
    \/ UniFill
    \/ UniSpawn
    \/ UniWait
    \/ \E g \in 1..Len(gor) : GoRead(g)
    \/ \E g \in 1..Len(gor) : GoWriteB(g)
    \/ \E g \in 1..Len(gor) : GoWriteA(g)
    \/ \E g \in 1..Len(gor) : GoDone(g)
    \/ PoisRates
    \/ PoisNormalize
    \/ PoisFirst
    \/ PoisArrive
    \/ PoisCut
    \/ PoisPair

Spec == Init /\ [][Next]_vars

\* A step of the main goroutine while the first policy, Uniform, is run
\* (the policy index of line 297 is 0).
UniformMainStep ==
    /\ ai = 0
    /\ \/ MainPolicy
       \/ MainRun
       \/ MainTurn
       \/ MainMeasure
       \/ MainStore
       \/ UniFill
       \/ UniSpawn
       \/ UniWait

\* A step of one of the goroutines that Unifact started.
GoStep ==
    \/ \E g \in 1..Len(gor) : GoRead(g)
    \/ \E g \in 1..Len(gor) : GoWriteB(g)
    \/ \E g \in 1..Len(gor) : GoWriteA(g)
    \/ \E g \in 1..Len(gor) : GoDone(g)

\* UniformMainStep \/ GoStep, action by action.
UniformNext ==
    \/ ai = 0 /\ MainPolicy
    \/ ai = 0 /\ MainRun
    \/ ai = 0 /\ MainTurn
    \/ ai = 0 /\ MainMeasure
    \/ ai = 0 /\ MainStore
    \/ ai = 0 /\ UniFill
    \/ ai = 0 /\ UniSpawn
    \/ ai = 0 /\ UniWait
    \/ \E g \in 1..Len(gor) : GoRead(g)
    \/ \E g \in 1..Len(gor) : GoWriteB(g)
    \/ \E g \in 1..Len(gor) : GoWriteA(g)
    \/ \E g \in 1..Len(gor) : GoDone(g)

\* The program up to the end of the runs of the Uniform policy, under the Go
\* scheduler, which runs every goroutine that can run: main while it is not
\* blocked in wg.Wait, and the started goroutines (none of their steps
\* blocks) until the last has called Done.
UniformFairSpec ==
    Init /\ [][UniformNext]_vars /\ WF_vars(UniformMainStep) /\ WF_vars(GoStep)

\* ------------------------------------------------------------------ claims
Uniform == activationType = "uniform"
PoissonFamily == activationType \in {"poisson", "inversePoisson", "naturalPoisson"}

\* The positions of main at which a scheduler is running.
SchedulerPcs == {"uni_fill", "uni_spawn", "uni_wait", "rand_loop", "pois_rates",
                 "pois_norm", "pois_first", "pois_arrive", "pois_cut", "pois_pair"}

\* The agents that the Proc calls of the turn were given.
Paired == {calls[k].a : k \in 1..Len(calls)} \cup {calls[k].b : k \in 1..Len(calls)}

\* No agent is an endpoint twice over the Proc calls of the turn.
PairsDisjoint == Cardinality(Paired) = 2 * Len(calls)

\* C1: when a Uniform turn has taken all its pairs off the queue, floor(N/2)
\* pairs were handed to Proc, no agent index is in two of them (or twice in
\* one), and N mod 2 agents are in none: nobody for an even N, the last index
\* of the permutation for an odd N.
C1_UniformPairing ==
    /\ (Uniform /\ pc \in {"uni_spawn", "uni_wait", "main_measure"}) => PairsDisjoint
    /\ pc = "uni_wait" =>
          /\ Len(calls) = Len(Pop) \div 2
          /\ Cardinality((1..Len(Pop)) \ Paired) = Len(Pop) % 2
          /\ (1..Len(Pop)) \ Paired =
                (IF Len(Pop) % 2 = 1 THEN {perm[Len(perm)]} ELSE {})
          /\ \A k \in 1..Len(calls) :
                calls[k].a = perm[2 * k - 1] /\ calls[k].b = perm[2 * k]

\* A Uniform turn of an odd population of three or more has spawned its pairs
\* and left one agent out.
C1_Witness ==
    /\ pc = "uni_wait"
    /\ Len(Pop) % 2 = 1
    /\ Len(calls) >= 1
    /\ Len(turnList) = 1

\* The wealth agent i must hold after a Uniform turn, from the wealths at its
\* start: the floor of the pair's mean for a paired agent, its own otherwise.
LeveledFromPre(i) ==
    IF \E k \in 1..Len(calls) : i \in {calls[k].a, calls[k].b}
    THEN LET k == CHOOSE k \in 1..Len(calls) : i \in {calls[k].a, calls[k].b}
         IN  (pre[calls[k].a] + pre[calls[k].b]) \div 2
    ELSE pre[i]

\* C2: goroutines that are alive together never share an agent, and whatever
\* the interleaving was, a finished Uniform turn leaves every paired agent with
\* the floor of its pair's pre-turn mean and every other agent untouched.
C2_UniformDeterministic ==
    /\ \A g, h \in 1..Len(gor) :
          g # h => {gor[g].a, gor[g].b} \cap {gor[h].a, gor[h].b} = {}
    /\ (Uniform /\ pc = "main_measure") =>
          \A i \in 1..Len(Pop) : Pop[i].wealth = LeveledFromPre(i)

\* The spec's example: wealths 1,2,3,4 with pairs (0,1) and (2,3) end 1,1,3,3.
C2_Witness ==
    /\ Uniform /\ pc = "main_measure"
    /\ pre = <<1, 2, 3, 4>>
    /\ Len(calls) = 2
    /\ {calls[1].a, calls[1].b} = {1, 2}
    /\ {calls[2].a, calls[2].b} = {3, 4}
    /\ Wealths(Pop) = <<1, 1, 3, 3>>

\* C3: leveling goroutines exist only while main is inside Unifact, so none is
\* alive when Unifact has returned and the turn is measured; and while the
\* scheduler of turn t+1 runs, the t+1 measurements of the turns before it
\* (and the initial one) are already recorded.
C3_TurnsSequential ==
    /\ gor # <<>> => pc \in {"uni_spawn", "uni_wait"}
    /\ pc = "main_measure" => (gor = <<>> /\ wg = 0 /\ Len(sds) = ti + 1)
    /\ pc \in SchedulerPcs => Len(sds) = ti + 1

\* The second Uniform turn of a run has leveled two pairs and is about to be
\* measured.
C3_Witness ==
    /\ Uniform /\ pc = "main_measure"
    /\ ti = 1
    /\ Len(calls) = 2

\* C4 (as claimed, for the populations of two or more agents whose standard
\* deviation is a number): the row stored for a run is the whole trajectory of
\* NumTurns+1 measurements, and so is what the gradient analysis reads back.
C4_TrajectoryStoredWhole ==
    NumOfAgents >= 2 =>
    /\ (pc = "main_run" /\ ri > 0) =>
          /\ Len(sds) = NumTurns + 1
          /\ Row(actResults, ri - 1) = sds
    /\ \A m \in 1..Len(totalResults) : \A r \in 1..Len(totalResults[m]) :
          Len(totalResults[m][r]) = NumTurns + 1
    /\ (pc = "grad" /\ gj > 0) => Len(runArray) = NumTurns + 1

\* C5 (as claimed): in a Poisson-family turn no agent is an endpoint of two
\* Proc calls, or both endpoints of one.
C5_PoissonPairsDisjoint ==
    (PoissonFamily /\ pc \in {"pois_pair", "main_measure"}) => PairsDisjoint

\* The events that the Proc calls of the turn took off the deque.
UsedEvents == {calls[k].ea : k \in 1..Len(calls)} \cup {calls[k].eb : k \in 1..Len(calls)}

\* C5 (amended): in a Poisson-family turn the leveled pairs are disjoint as
\* pairs of events: every call levels the agents of two events of the cut
\* list, and no event is used twice over the calls of the turn or at both
\* ends of one. (An agent with several events may be in several pairs, and at
\* both ends of one.)
C5_PoissonEventsUsedOnce ==
    (PoissonFamily /\ pc = "pois_pair") =>
        /\ Cardinality(UsedEvents) = 2 * Len(calls)
        /\ \A k \in 1..Len(calls) :
              /\ \E e \in 1..Len(aTimes) :
                    aTimes[e].id = calls[k].ea /\ aTimes[e].agent = calls[k].a
              /\ \E e \in 1..Len(aTimes) :
                    aTimes[e].id = calls[k].eb /\ aTimes[e].agent = calls[k].b

\* A Poisson-family turn has leveled two pairs that share an agent.
C5_Witness ==
    /\ PoissonFamily /\ pc = "pois_pair"
    /\ Len(calls) = 2
    /\ {calls[1].a, calls[1].b} \cap {calls[2].a, calls[2].b} # {}

\* C6 (as claimed, for populations of two or more agents): between Normalize
\* and the end of event generation every rate is a strictly positive finite
\* number.
C6_RatesPositiveFinite ==
    (NumOfAgents >= 2 /\ pc \in {"pois_first", "pois_arrive"}) =>
        \A i \in 1..Len(Pop) : FIsPositiveFinite(Pop[i].lam)

\* C7 (as claimed, for populations of two or more agents): after Normalize
\* the rates sum to 1.1 * N and none is 0.
C7_RatesSumToTarget ==
    (NumOfAgents >= 2 /\ pc \in {"pois_first", "pois_arrive"}) =>
        /\ FSum(Lams(Pop)) = FMul(TargetMultiplier, F(NumOfAgents))
        /\ \A i \in 1..Len(Pop) : ~FIsZero(Pop[i].lam)

TotalWealth == ISum(Wealths(Pop))

\* A step in which Randmact or Poisact calls Proc.
ProcStep == ~Uniform /\ Len(calls') = Len(calls) + 1

\* A step in which goroutine g finishes its Proc call (line 123).
ProcEnds(g) == Len(gor') = Len(gor) /\ gor[g].st = "write_a" /\ gor'[g].st = "done"

\* C8: a Proc call changes the combined wealth of its agents by 0 or -1 (a call
\* of Randmact or Poisact in one step; a call of a Unifact goroutine between
\* the turn's start, when its agents were last written, and its last write),
\* and when a turn with p calls is over the total wealth is at most the
\* pre-turn total and at least that total minus p.
C8_ProcLosesAtMostOne ==
    /\ [][/\ ProcStep => (ISum(Wealths(Pop')) - TotalWealth) \in {0, -1}
          /\ \A g \in 1..Len(gor) : ProcEnds(g) =>
                (Pop'[gor[g].a].wealth + Pop'[gor[g].b].wealth
                   - (pre[gor[g].a] + pre[gor[g].b])) \in {0, -1}]_vars
    /\ [](pc = "main_measure" =>
             /\ TotalWealth <= ISum(pre)
             /\ TotalWealth >= ISum(pre) - Len(calls))

\* A turn of two calls that each lost one unit is over.
C8_Witness ==
    /\ pc = "main_measure"
    /\ Len(calls) = 2
    /\ TotalWealth = ISum(pre) - 2

\* C9: no agent's wealth is ever negative.
C9_WealthNonNegative == \A i \in 1..Len(Pop) : Pop[i].wealth >= 0

\* The second turn of a run is over and Proc has lowered the richest agent.
C9_Witness ==
    /\ pc = "main_measure"
    /\ ti = 1
    /\ calls # <<>>
    /\ Len(Pop) >= 2
    /\ Pop[Len(Pop)].wealth < Len(Pop)

\* C10: with 0 or 1 agents no policy ever calls Proc or starts a goroutine,
\* and the wealths stay what Populate made them.
C10_TinyPopulationNoOp ==
    NumOfAgents <= 1 =>
        /\ calls = <<>>
        /\ gor = <<>>
        /\ Wealths(Pop) \in {<<>>, Wealths(Populate(NumOfAgents))}
        /\ pc \in SchedulerPcs \cup {"main_measure"} => Wealths(Pop) = pre

\* The only agent of a population of one has emitted two or more events in a
\* Poisson-family turn (the list was cut to one event), and the pairing loop
\* is reached.
C10_Witness ==
    /\ NumOfAgents = 1
    /\ pc = "pois_pair"
    /\ Len(arr0) = 1

\* C11 (as claimed, for the population size 0): the program stops before a
\* population is built into a run and before a turn executes: no measurement is
\* taken, no scheduler is entered and no turn is counted.
C11_InvalidConfigAborts ==
    NumOfAgents = 0 =>
        /\ sds = <<>>
        /\ pc \notin SchedulerPcs \cup {"main_turn", "main_measure"}
        /\ ti = 0

\* A step in which Randmact or Poisact calls Proc on the pair of agents that
\* the call before it in the turn was given.
RepeatedProcStep ==
    /\ ProcStep
    /\ calls # <<>>
    /\ calls'[Len(calls')].a = calls[Len(calls)].a
    /\ calls'[Len(calls')].b = calls[Len(calls)].b

\* C12: in every reachable state, for every two agents a and b, Proc(a, b)
\* called twice in succession leaves every wealth what the first call made
\* it; and whenever Randmact or Poisact calls Proc on the pair it has just
\* leveled, no wealth changes.
C12_ProcIdempotent ==
    /\ [](\A a, b \in 1..Len(Pop) :
             Wealths(Proc(Proc(Pop, a, b), a, b)) = Wealths(Proc(Pop, a, b)))
    /\ [][RepeatedProcStep => Wealths(Pop') = Wealths(Pop)]_vars

\* Randmact has drawn the same pair of two agents of different wealth twice in
\* a row: the first call leveled them, the second found them level.
C12_Witness ==
    /\ activationType = "random" /\ pc = "rand_loop"
    /\ Len(calls) = 2
    /\ calls[1].a # calls[1].b
    /\ calls[1].a = calls[2].a /\ calls[1].b = calls[2].b
    /\ pre[calls[1].a] # pre[calls[1].b]
    /\ Pop[calls[1].a].wealth = Pop[calls[1].b].wealth

\* A step in which Randmact or Poisact calls Proc with one agent as both
\* arguments.
SelfPairStep == ProcStep /\ calls'[Len(calls')].a = calls'[Len(calls')].b

\* C13: Proc called with the same agent as both arguments changes no wealth:
\* for every agent of every reachable population, and on every step in which
\* Randmact draws a self-pair or Poisact pairs two events of one agent.
C13_SelfPairNoOp ==
    /\ [](\A a \in 1..Len(Pop) : Wealths(Proc(Pop, a, a)) = Wealths(Pop))
    /\ [][SelfPairStep => Wealths(Pop') = Wealths(Pop)]_vars

\* Poisact has paired two events of one agent, after a call that leveled two
\* different agents, and the wealths are those the first call left.
C13_Witness ==
    /\ PoissonFamily /\ pc = "pois_pair"
    /\ Len(calls) = 2
    /\ calls[1].a # calls[1].b
    /\ calls[2].a = calls[2].b /\ calls[2].ea # calls[2].eb
    /\ Wealths(Pop) = Wealths(Proc([i \in 1..Len(pre) |-> [wealth |-> pre[i], lam |-> F(0)]],
                                   calls[1].a, calls[1].b))
    /\ Wealths(Pop) # pre

\* The positions of main inside a run.
RunPcs == SchedulerPcs \cup {"main_turn", "main_measure"}

\* C14: when a run starts (its turn loop is reached with no turn done), for
\* every policy and run index, the population has NumOfAgents agents, agent i
\* (from 0) with wealth i+1 and rate 0, whatever the runs before left; and the
\* population has NumOfAgents agents at every point of the run.
C14_RunsIndependent ==
    /\ (pc = "main_turn" /\ ti = 0) =>
          /\ Len(Pop) = NumOfAgents
          /\ \A i \in 1..Len(Pop) : Pop[i].wealth = i /\ Pop[i].lam = F(0)
    /\ pc \in RunPcs => Len(Pop) = NumOfAgents

\* The second run of the last policy starts: the runs before it leveled
\* wealths and set rates.
C14_Witness ==
    /\ pc = "main_turn" /\ ti = 0
    /\ ri = 1
    /\ activationType = "naturalPoisson"
    /\ NumOfAgents >= 2
    /\ Len(totalResults) = 4

\* The length of a list of e events after the cut to an even length and the
\* cut to at most n events.
CutLen(e, n) == IF e - (e % 2) < n THEN e - (e % 2) ELSE n

\* The events are in non-decreasing time order.
TimeOrdered(evs) ==
    \A i, j \in 1..Len(evs) : i < j => evs[i].time <= evs[j].time

\* C15: in a Poisson-family turn the sorted list of the E emitted events is
\* cut to its first min(E - (E mod 2), N) events; Poisact returns after
\* floor(min(E - (E mod 2), N) / 2) Proc calls, at most floor(N/2); and the
\* k-th call (from 0) levels the agents of the events at positions 2k and 2k+1
\* of the sorted list, so the calls follow non-decreasing event time.
C15_PoissonPairing ==
    /\ [](pc \in {"pois_cut", "pois_pair"} => TimeOrdered(aTimes))
    /\ [][pc = "pois_cut" =>
             aTimes' = SubSeq(aTimes, 1, CutLen(Len(aTimes), Len(Pop)))]_vars
    /\ [](pc = "pois_pair" =>
             /\ Len(calls) <= Len(aTimes) \div 2
             /\ \A k \in 1..Len(calls) :
                   /\ calls[k].ea = aTimes[2 * k - 1].id
                   /\ calls[k].a = aTimes[2 * k - 1].agent
                   /\ calls[k].eb = aTimes[2 * k].id
                   /\ calls[k].b = aTimes[2 * k].agent)
    /\ [][(pc = "pois_pair" /\ pc' = "main_measure") =>
             /\ Len(calls) = Len(aTimes) \div 2
             /\ Len(calls) <= Len(Pop) \div 2]_vars

\* Three agents emitted four events, the list was cut to three, and the one
\* Proc call of the turn is done.
C15_Witness ==
    /\ pc = "pois_pair"
    /\ Len(Pop) = 3
    /\ Len(aTimes) = 3
    /\ Len(calls) = 1
    /\ Len(arr0) = 1

\* C16 (as claimed): after the sort, events of equal time are in the order in
\* which they were put on the list (by agent index, then by arrival within
\* the agent).
C16_SortKeepsInsertionOrder ==
    pc = "pois_cut" =>
        \A i, j \in 1..Len(aTimes) :
            (i < j /\ aTimes[i].time = aTimes[j].time) => aTimes[i].id < aTimes[j].id

\* The positions of Poisact at which events are generated; the list is in the
\* order in which the events were appended.
GenerationPcs == {"pois_first", "pois_arrive"}

\* Every event on the list has a time in [0, 1.0) and an agent whose rate is a
\* number.
EventsInRange ==
    \A e \in 1..Len(aTimes) :
        /\ 0 <= aTimes[e].time /\ aTimes[e].time < TimeOne
        /\ ~IsNaN(Pop[aTimes[e].agent].lam)

\* The inner loop of the event generation: a clock value below 1.0 is put on
\* the list for the agent at hand; any other clock value (1.0 or more, or not
\* a number) ends the agent's events with nothing put on the list.
GenerationStops ==
    pc = "pois_arrive" =>
        IF nextT < TimeOne
        THEN /\ Len(aTimes') = Len(aTimes) + 1
             /\ aTimes'[Len(aTimes')].time = nextT
             /\ aTimes'[Len(aTimes')].agent = li + 1
        ELSE aTimes' = aTimes /\ li' = li + 1

\* C17 (as claimed): during event generation every event has a time in
\* [0, 1.0), the events of one agent are appended in strictly increasing time
\* order, and an agent's generation stops at the first clock value not below
\* 1.0.
C17_EventTimesIncreasing ==
    /\ [](pc \in GenerationPcs =>
             /\ EventsInRange
             /\ \A i, j \in 1..Len(aTimes) :
                   (i < j /\ aTimes[i].agent = aTimes[j].agent)
                       => aTimes[i].time < aTimes[j].time)
    /\ [][GenerationStops]_vars

\* C17 (amended): during event generation every event has a time in [0, 1.0),
\* the events of one agent are appended in non-decreasing time order (two
\* successive events of an agent have the same time when the float64 addition
\* nextT += gap rounds back to nextT), and an agent's generation stops at the
\* first clock value not below 1.0, so that an agent whose first arrival is at
\* or after 1.0, or whose rate is not a number, emits nothing.
C17_EventTimesNonDecreasing ==
    /\ [](pc \in GenerationPcs =>
             /\ EventsInRange
             /\ \A i, j \in 1..Len(aTimes) :
                   (i < j /\ aTimes[i].agent = aTimes[j].agent)
                       => aTimes[i].time <= aTimes[j].time)
    /\ [][GenerationStops]_vars

\* Generation is over for a population of three: one agent emitted nothing,
\* one emitted two events at times that differ, and one two events of the
\* same time.
C17_Witness ==
    /\ pc = "pois_first" /\ li = Len(Pop) /\ Len(Pop) = 3
    /\ Len(aTimes) = 4
    /\ \E a, b, c \in 1..3 :
          /\ a # b
          /\ \A e \in 1..4 : aTimes[e].agent # c
          /\ \E i, j \in 1..4 :
                i < j /\ aTimes[i].agent = a /\ aTimes[j].agent = a
                      /\ aTimes[i].time < aTimes[j].time
          /\ \E i, j \in 1..4 :
                i < j /\ aTimes[i].agent = b /\ aTimes[j].agent = b
                      /\ aTimes[i].time = aTimes[j].time

\* A step in which a Unifact goroutine writes a wealth (line 122 or 123).
GoWriteStep ==
    /\ Len(gor') = Len(gor)
    /\ \E g \in 1..Len(gor) :
          gor[g].st \in {"write_b", "write_a"} /\ gor'[g].st # gor[g].st

\* The rates that the wealths of the population give under the policy: the
\* rate of lines 212-229 for every agent, normalised.
RatesFromWealths ==
    Lams(Normalize([i \in 1..Len(Pop) |->
                       [wealth |-> Pop[i].wealth, lam |-> RawLam(Pop, i, activationType)]],
                   NumOfAgents))

\* C18: within a run a wealth changes only in a Proc call (of Randmact, of
\* Poisact's pairing loop, or of a Unifact goroutine) and a rate only in
\* Poisact's rate assignment and Normalize (a new run starts with Populate's
\* new agents); the rate, normalisation, generation, sorting and cutting steps
\* of Poisact change no wealth; Unifact and Randmact change no rate; and while
\* events are generated every rate is the one the current wealths give, not
\* one of an earlier turn.
C18_FrameOfWealthAndRates ==
    /\ [][Wealths(Pop') # Wealths(Pop) =>
             \/ pc \in {"rand_loop", "pois_pair"} /\ ProcStep
             \/ pc \in {"uni_spawn", "uni_wait"} /\ GoWriteStep
             \/ pc = "main_run"]_vars
    /\ [][Lams(Pop') # Lams(Pop) =>
             pc \in {"pois_rates", "pois_norm", "main_run"}]_vars
    /\ [][(pc \in {"pois_rates", "pois_norm", "pois_first", "pois_arrive", "pois_cut"})
             => Wealths(Pop') = Wealths(Pop)]_vars
    /\ [][(pc \in {"uni_fill", "uni_spawn", "uni_wait", "rand_loop"})
             => Lams(Pop') = Lams(Pop)]_vars
    /\ [](pc \in {"pois_first", "pois_arrive"} => Lams(Pop) = RatesFromWealths)

\* The second Poisson-family turn of a run, whose first turn changed wealths,
\* is generating events: the rates are numbers and not those of the first
\* turn.
C18_Witness ==
    /\ PoissonFamily /\ pc = "pois_arrive"
    /\ ti = 1
    /\ Wealths(Pop) # Wealths(Populate(NumOfAgents))
    /\ \A i \in 1..Len(Pop) : IsNum(Pop[i].lam)
    /\ Lams(Pop) # Lams(Normalize(AssignRates(Populate(NumOfAgents), activationType),
                                  NumOfAgents))

\* C19: under fair scheduling every Uniform turn terminates, for every
\* population size: each queue read of the spawn loop finds two indices (Get
\* does not block); the WaitGroup counter goes up by one in the step that
\* starts a goroutine and down by one in the step in which a goroutine ends,
\* and changes in no other step of a turn, so it is the number of goroutines
\* started and not ended and never negative; and a turn that has entered
\* Unifact reaches the return of wg.Wait with the counter at 0 and no
\* goroutine left.
C19_UniformTurnTerminates ==
    /\ [](wg >= 0 /\ wg = Len(gor))
    /\ []((pc = "uni_spawn" /\ li < Len(perm) \div 2) =>
             (Len(turnList) >= 2 /\ Len(QueueGet(turnList, 2)) = 2))
    /\ [](pc = "uni_wait" => (Len(calls) = Len(perm) \div 2 /\ li = Len(perm) \div 2))
    /\ [][/\ Len(gor') = Len(gor) + 1 => wg' = wg + 1
          /\ Len(gor') = Len(gor) - 1 => wg' = wg - 1
          /\ Len(gor') = Len(gor) => (wg' = wg \/ pc = "uni_fill")]_vars
    /\ (pc = "uni_fill") ~> (pc = "main_measure" /\ wg = 0 /\ gor = <<>>)

\* Main waits in wg.Wait of a turn that started two goroutines: one has
\* ended, the other has leveled its pair and is about to call Done.
C19_Witness ==
    /\ pc = "uni_wait"
    /\ Len(calls) = 2
    /\ wg = 1
    /\ Len(gor) = 1 /\ gor[1].st = "done"

\* The least and the greatest wealth of a population of one agent or more.
MinWealth(P) == CHOOSE w \in {P[i].wealth : i \in 1..Len(P)} :
                    \A i \in 1..Len(P) : w <= P[i].wealth
MaxWealth(P) == CHOOSE w \in {P[i].wealth : i \in 1..Len(P)} :
                    \A i \in 1..Len(P) : w >= P[i].wealth

\* C20: under every policy every wealth is at every moment within
\* [1, NumOfAgents], the range of Populate's wealths; within a run no step
\* lowers the least wealth of the population or raises the greatest; and when
\* the naturalPoisson rates are computed no wealth is 0, so the guard of line
\* 220 is not taken.
C20_WealthWithinInitialRange ==
    /\ [](\A i \in 1..Len(Pop) : Pop[i].wealth >= 1 /\ Pop[i].wealth <= NumOfAgents)
    /\ [][(pc # "main_run" /\ Len(Pop) >= 1) =>
             /\ MinWealth(Pop') >= MinWealth(Pop)
             /\ MaxWealth(Pop') <= MaxWealth(Pop)]_vars
    /\ []((pc = "pois_rates" /\ activationType = "naturalPoisson") =>
             \A i \in 1..Len(Pop) : ~FIsZero(F(Pop[i].wealth)))

\* The naturalPoisson rates are about to be computed in the second turn of a
\* run whose first turn raised the least wealth and lowered the greatest.
C20_Witness ==
    /\ pc = "pois_rates" /\ activationType = "naturalPoisson"
    /\ ti = 1
    /\ Len(Pop) >= 2
    /\ MinWealth(Pop) > 1
    /\ MaxWealth(Pop) < NumOfAgents
=============================================================================
